---- MODULE Spec2Model ----
(***************************************************************************)
(* Model of create_order (src/refactored_code_part_2.py): the order        *)
(* placement handler run by NumRequests concurrent requests against one    *)
(* shared store (tables products and orders, row locks, transactions).     *)
(*                                                                         *)
(* A request payload is a function from field names to values; an absent   *)
(* field is absent from its DOMAIN.  The store keeps the committed tables  *)
(* (products, orders), one row lock per product and, per request, the      *)
(* writes of its open transaction (txOrders, txStock), which become        *)
(* visible together at commit and vanish at rollback.  The creation        *)
(* timestamp of an order row (db.now()) is not modelled.                   *)
(***************************************************************************)
EXTENDS Integers, FiniteSets, Sequences, TLC

\* ---------------------------------------------------------------- bounds
NumRequests == 2
MaxStock == 3
MaxQty == 2

\* None: the default of dict.get when the key is absent (line 22).
None == 0

Requests == 1..NumRequests
\* Product ids of the rows of the products table.
ProductIds == {1, 2}
\* Quantities a client can send: negative, zero and positive integers.
Quantities == (-1)..MaxQty

NoRow == [id |-> None]

\* ------------------------------------------------------------- payloads
\* The payloads a client sends, as a list: the empty payload, three payloads
\* that lack one field, every quantity for product 1, one order for product 2
\* and one for product 3, which has no row.
EmptyPayload == [f \in {} |-> None]
MalformedPayloads ==
    <<EmptyPayload,
      [productId |-> 1, userId |-> 7],
      [productId |-> 1, quantity |-> 1],
      [quantity |-> 1, userId |-> 7]>>
QuantityPayloads ==
    [i \in 1..(MaxQty + 2) |-> [productId |-> 1, quantity |-> i - 2, userId |-> 7]]
OtherProductPayloads ==
    <<[productId |-> 2, quantity |-> 1, userId |-> 7],
      [productId |-> 3, quantity |-> 1, userId |-> 7]>>
PayloadList == MalformedPayloads \o QuantityPayloads \o OtherProductPayloads

\* Requests run the same code whatever their number, so they are numbered in
\* the order of their payloads in PayloadList.
Ordered(code) == \A r \in Requests : r + 1 \in Requests => code[r] <= code[r + 1]

\* dict.get(key, default)
Get(d, k, default) == IF k \in DOMAIN d THEN d[k] ELSE default

VARIABLES
    products,     \* committed products table: id -> [id, stock, price]
    orders,       \* committed orders table: a set of order rows
    lock,         \* row lock of each product: the set of requests holding it
    initStock,    \* the stock of each product before any request (never changes)
    order_data,   \* per request: the payload of the request
    pc,           \* per request: the position in create_order
    product_id,   \* per request: local product_id (line 22)
    quantity,     \* per request: local quantity (line 23)
    product,      \* per request: the row read at line 28, or NoRow
    order_id,     \* per request: local order_id (line 41)
    total_price,  \* per request: local total_price (line 42)
    txState,      \* per request: "none", "open", "committed", "rolledback"
    txOrders,     \* per request: order rows inserted by the open transaction
    txStock,      \* per request: product -> stock written by the open transaction
    raised,       \* per request: the exception that ended the handler, or NoExc
    response,     \* per request: the response returned, or NoResponse
    published,    \* per request: the publish_event calls made, in order
    touched,      \* per request: TRUE once the handler has used the store
    applied       \* per request: the stock decrement its commit made visible

vars == <<products, orders, lock, initStock, order_data, pc, product_id, quantity,
          product, order_id, total_price, txState, txOrders, txStock, raised,
          response, published, touched, applied>>

storeVars == <<products, orders, lock>>
localVars == <<product_id, quantity, product, order_id, total_price>>

NoWrites == [p \in {} |-> 0]
NoExc == [type |-> "none"]
NoResponse == [code |-> 0]

\* ------------------------------------------------------------ exceptions
\* An exception is [type, site, msg]; msg is [text, args] (the f-string's
\* fixed text and the values it interpolates).
Msg(text, args) == [text |-> text, args |-> args]
BadRequest(site, msg) == [type |-> "BadRequest", site |-> site, msg |-> msg]
SQLAlchemyError(site) ==
    [type |-> "SQLAlchemyError", site |-> site, msg |-> Msg("driver detail", <<site>>)]
OtherException(site) ==
    [type |-> "Exception", site |-> site, msg |-> Msg("internal detail", <<site>>)]

\* The except clauses without the SQLAlchemyError clause of lines 89-92.
HandleExceptionNoStoreClause(e) ==
    IF e.type = "BadRequest"
    THEN [code |-> 400, body |-> [error |-> e.msg]]
    ELSE [code |-> 500, body |-> [error |-> Msg("Order processing failed", <<>>)]]

\* The except clauses, lines 84-97.
HandleException(e) ==
    IF e.type = "BadRequest"
    THEN [code |-> 400, body |-> [error |-> e.msg]]
    ELSE IF e.type = "SQLAlchemyError"
    THEN [code |-> 500,
          body |-> [error |-> Msg("Database error occurred during order processing", <<>>)]]
    ELSE [code |-> 500, body |-> [error |-> Msg("Order processing failed", <<>>)]]

\* The response of lines 78-82.
CreatedResponse(id) ==
    [code |-> 201,
     body |-> [orderId |-> id, status |-> "created",
               message |-> "Order successfully created"]]

\* ----------------------------------------------------------------- Init
Init ==
    /\ \E s \in 0..MaxStock : initStock = [p \in ProductIds |-> s]
    /\ products = [p \in ProductIds |->
                      [id |-> p, stock |-> initStock[p], price |-> 10 * p]]
    /\ orders = {}
    /\ lock = [p \in ProductIds |-> {}]
    /\ \E code \in [Requests -> 1..Len(PayloadList)] :
          /\ Ordered(code)
          /\ order_data = [r \in Requests |-> PayloadList[code[r]]]
    /\ pc = [r \in Requests |-> "validate"]
    /\ product_id = [r \in Requests |-> None]
    /\ quantity = [r \in Requests |-> None]
    /\ product = [r \in Requests |-> NoRow]
    /\ order_id = [r \in Requests |-> None]
    /\ total_price = [r \in Requests |-> None]
    /\ txState = [r \in Requests |-> "none"]
    /\ txOrders = [r \in Requests |-> {}]
    /\ txStock = [r \in Requests |-> NoWrites]
    /\ raised = [r \in Requests |-> NoExc]
    /\ response = [r \in Requests |-> NoResponse]
    /\ published = [r \in Requests |-> <<>>]
    /\ touched = [r \in Requests |-> FALSE]
    /\ applied = [r \in Requests |-> 0]

\* ------------------------------------------------------ leaving by raise
\* An exception leaves the with block without the transaction being closed.
RollbackMissing(r) == UNCHANGED <<txState, txOrders, txStock, lock>>

\* Rollback of the transaction of r, if one is open: the exit of the with
\* block of line 26 by an exception.  Its writes vanish, its lock is freed.
Rollback(r) ==
    IF txState[r] = "open"
    THEN /\ txState' = [txState EXCEPT ![r] = "rolledback"]
         /\ txOrders' = [txOrders EXCEPT ![r] = {}]
         /\ txStock' = [txStock EXCEPT ![r] = NoWrites]
         /\ lock' = [p \in ProductIds |-> lock[p] \ {r}]
    ELSE UNCHANGED <<txState, txOrders, txStock, lock>>

\* Exception e leaves the try block: rollback, then the matching except clause
\* builds the response (lines 84-97).
Raise(r, e) ==
    /\ Rollback(r)
    /\ raised' = [raised EXCEPT ![r] = e]
    /\ response' = [response EXCEPT ![r] = HandleException(e)]
    /\ pc' = [pc EXCEPT ![r] = "done"]

\* ------------------------------------------------------------ validation
required_fields == {"productId", "quantity", "userId"}

\* line 14: not order_data (None and the empty object are both falsy)
MissingData(d) == DOMAIN d = {}

\* Line 18 with 'userId' left out of required_fields.
MissingRequiredWithoutUserId(d) == ~({"productId", "quantity"} \subseteq DOMAIN d)

\* line 19: not all(field in order_data for field in required_fields)
MissingRequired(d) == ~(required_fields \subseteq DOMAIN d)

\* lines 13-23
Validate(r) ==
    /\ pc[r] = "validate"
    /\ LET d == order_data[r] IN
       IF MissingData(d)
       THEN /\ Raise(r, BadRequest("validate", Msg("Missing order data", <<>>)))
            /\ UNCHANGED localVars
       ELSE IF MissingRequired(d)
       THEN /\ Raise(r, BadRequest("validate",
                          Msg("Missing required fields", <<required_fields>>)))
            /\ UNCHANGED localVars
       ELSE /\ product_id' = [product_id EXCEPT ![r] = Get(d, "productId", None)]
            /\ quantity' = [quantity EXCEPT ![r] = Get(d, "quantity", 1)]
            /\ pc' = [pc EXCEPT ![r] = "begin"]
            /\ UNCHANGED <<product, order_id, total_price, txState, txOrders,
                           txStock, lock, raised, response>>
    /\ UNCHANGED <<products, orders, initStock, order_data, published, touched, applied>>

\* ----------------------------------------------------------- transaction
\* line 26: with db.transaction() entered
BeginTransaction(r) ==
    /\ pc[r] = "begin"
    /\ txState' = [txState EXCEPT ![r] = "open"]
    /\ touched' = [touched EXCEPT ![r] = TRUE]
    /\ pc' = [pc EXCEPT ![r] = "select"]
    /\ UNCHANGED <<storeVars, localVars, initStock, order_data, txOrders, txStock,
                   raised, response, published, applied>>

\* The read of lines 28-31 without FOR UPDATE: it never waits for a lock.
CanLockAlways(r, p) == TRUE

\* The lock of lines 28-31 taken on the whole products table instead of the row.
CanLockWholeTable(r, p) == \A x \in ProductIds : lock[x] \subseteq {r}

\* FOR UPDATE: a row can be locked by r when no other request holds its lock.
CanLock(r, p) == lock[p] \subseteq {r}

\* lines 28-31: SELECT id, stock, price FROM products WHERE id = .. FOR UPDATE
SelectForUpdate(r) ==
    /\ pc[r] = "select"
    /\ LET p == product_id[r] IN
       IF p \in ProductIds
       THEN /\ CanLock(r, p)
            /\ lock' = [lock EXCEPT ![p] = @ \cup {r}]
            /\ product' = [product EXCEPT ![r] = products[p]]
       ELSE /\ product' = [product EXCEPT ![r] = NoRow]
            /\ UNCHANGED lock
    /\ pc' = [pc EXCEPT ![r] = "check"]
    /\ UNCHANGED <<products, orders, initStock, order_data, product_id, quantity,
                   order_id, total_price, txState, txOrders, txStock, raised,
                   response, published, touched, applied>>

\* Line 36 left out: no request is refused for insufficient stock.
StockInsufficientNever(stock, q) == FALSE

\* Line 36 written with <= : a request for all the remaining stock is refused.
StockInsufficientOffByOne(stock, q) == stock <= q

\* line 36: product['stock'] < quantity
StockInsufficient(stock, q) == stock < q

\* lines 33-38
CheckProduct(r) ==
    /\ pc[r] = "check"
    /\ IF product[r] = NoRow
       THEN Raise(r, BadRequest("not_found",
                       Msg("Product not found", <<product_id[r]>>)))
       ELSE IF StockInsufficient(product[r].stock, quantity[r])
       THEN Raise(r, BadRequest("insufficient",
                       Msg("Insufficient stock",
                           <<product_id[r], product[r].stock, quantity[r]>>)))
       ELSE /\ pc' = [pc EXCEPT ![r] = "generate"]
            /\ UNCHANGED <<txState, txOrders, txStock, lock, raised, response>>
    /\ UNCHANGED <<products, orders, initStock, order_data, localVars, published,
                   touched, applied>>

\* line 41: an identifier no other call returns; each request calls it once.
generate_unique_id(r) == r

\* Line 42 without the multiplication by quantity.
TotalPriceOfOneUnit(price, q) == price

\* line 42
TotalPrice(price, q) == price * q

\* lines 41-42
GenerateOrder(r) ==
    /\ pc[r] = "generate"
    /\ order_id' = [order_id EXCEPT ![r] = generate_unique_id(r)]
    /\ total_price' = [total_price EXCEPT ![r] = TotalPrice(product[r].price, quantity[r])]
    /\ pc' = [pc EXCEPT ![r] = "insert"]
    /\ UNCHANGED <<storeVars, initStock, order_data, product_id, quantity, product,
                   txState, txOrders, txStock, raised, response, published, touched,
                   applied>>

\* line 41: generate_unique_id raises (entropy exhausted): an unexpected fault
GenerateFails(r) ==
    /\ pc[r] = "generate"
    /\ Raise(r, OtherException("generate"))
    /\ UNCHANGED <<products, orders, initStock, order_data, localVars, published,
                   touched, applied>>

\* lines 47-55: the row handed to db.insert
OrderRow(r) ==
    [id |-> order_id[r], user_id |-> order_data[r]["userId"],
     product_id |-> product_id[r], quantity |-> quantity[r],
     total_price |-> total_price[r], status |-> "created"]

\* The insert of lines 45-56 made outside the transaction: the row is visible at once.
InsertOrderOutsideTransaction(r) ==
    /\ pc[r] = "insert"
    /\ orders' = orders \cup {OrderRow(r)}
    /\ pc' = [pc EXCEPT ![r] = "update"]
    /\ UNCHANGED <<products, lock, initStock, order_data, localVars, txState, txOrders,
                   txStock, raised, response, published, touched, applied>>

\* lines 45-56; order_data['userId'] raises KeyError when the key is absent
InsertOrder(r) ==
    /\ pc[r] = "insert"
    /\ IF "userId" \notin DOMAIN order_data[r]
       THEN Raise(r, OtherException("insert"))
       ELSE /\ txOrders' = [txOrders EXCEPT ![r] = @ \cup {OrderRow(r)}]
            /\ pc' = [pc EXCEPT ![r] = "update"]
            /\ UNCHANGED <<txState, txStock, lock, raised, response>>
    /\ UNCHANGED <<products, orders, initStock, order_data, localVars, published,
                   touched, applied>>

\* The WHERE clause of line 60 written with > while line 36 keeps <.
UpdateMatchesStrictly(stock, q) == stock > q

\* line 60: WHERE id = .. AND stock >= ..
UpdateMatches(stock, q) == stock >= q

\* A sign slip in the SET clause of line 60.
NewStockAdds(stock, q) == stock + q

\* line 60: SET stock = stock - ..
NewStock(stock, q) == stock - q

\* The stock of row p as the transaction of r sees it.
StockSeen(r, p) == IF p \in DOMAIN txStock[r] THEN txStock[r][p] ELSE products[p].stock

\* line 59: the number of rows the UPDATE changes
RowsUpdated(r) ==
    LET p == product_id[r] IN
    IF p \in ProductIds /\ UpdateMatches(StockSeen(r, p), quantity[r]) THEN 1 ELSE 0

\* lines 59-67
UpdateInventory(r) ==
    /\ pc[r] = "update"
    /\ LET p == product_id[r]
           rows_updated == RowsUpdated(r) IN
       IF rows_updated = 0
       THEN Raise(r, BadRequest("conflict",
                       Msg("Inventory update failed - stock may have changed", <<>>)))
       ELSE /\ txStock' = [txStock EXCEPT ![r] =
                               [x \in DOMAIN @ \cup {p} |->
                                   IF x = p THEN NewStock(StockSeen(r, p), quantity[r])
                                   ELSE @[x]]]
            /\ pc' = [pc EXCEPT ![r] = "commit"]
            /\ UNCHANGED <<txState, txOrders, lock, raised, response>>
    /\ UNCHANGED <<products, orders, initStock, order_data, localVars, published,
                   touched, applied>>

\* line 69: the with block ends normally; the transaction commits.  Its order
\* rows and its stock writes become visible together and its lock is freed.
CommitTransaction(r) ==
    /\ pc[r] = "commit"
    /\ orders' = orders \cup txOrders[r]
    /\ products' = [p \in ProductIds |->
                       IF p \in DOMAIN txStock[r]
                       THEN [products[p] EXCEPT !.stock = txStock[r][p]]
                       ELSE products[p]]
    /\ applied' = [applied EXCEPT ![r] =
                      IF product_id[r] \in DOMAIN txStock[r]
                      THEN products[product_id[r]].stock - txStock[r][product_id[r]]
                      ELSE 0]
    /\ lock' = [p \in ProductIds |-> lock[p] \ {r}]
    /\ txState' = [txState EXCEPT ![r] = "committed"]
    /\ txOrders' = [txOrders EXCEPT ![r] = {}]
    /\ txStock' = [txStock EXCEPT ![r] = NoWrites]
    /\ pc' = [pc EXCEPT ![r] = "publish"]
    /\ UNCHANGED <<initStock, order_data, localVars, raised, response, published,
                   touched>>

\* A store call (begin, query, insert, execute, commit) raises SQLAlchemyError.
StorePoints == {"begin", "select", "insert", "update", "commit"}

StoreFails(r) ==
    /\ pc[r] \in StorePoints
    /\ Raise(r, SQLAlchemyError(pc[r]))
    /\ touched' = [touched EXCEPT ![r] = TRUE]
    /\ UNCHANGED <<products, orders, initStock, order_data, localVars, published,
                   applied>>

\* --------------------------------------------------------------- publish
\* lines 72-76: the event handed to publish_event
Event(r) == [name |-> "order.created", order_id |-> order_id[r],
             product_id |-> product_id[r], quantity |-> quantity[r]]

\* The publish_event call of lines 72-76 placed inside the with block, before
\* the commit.
PublishInsideTransaction(r) ==
    /\ pc[r] = "commit"
    /\ published[r] = <<>>
    /\ published' = [published EXCEPT ![r] = Append(@, Event(r))]
    /\ UNCHANGED <<storeVars, initStock, order_data, pc, localVars, txState, txOrders,
                   txStock, raised, response, touched, applied>>

\* lines 72-76: publish_event returns
PublishEvent(r) ==
    /\ pc[r] = "publish"
    /\ published' = [published EXCEPT ![r] = Append(@, Event(r))]
    /\ pc' = [pc EXCEPT ![r] = "return"]
    /\ UNCHANGED <<storeVars, initStock, order_data, localVars, txState, txOrders,
                   txStock, raised, response, touched, applied>>

\* lines 72-76: publish_event is called and raises
PublishFails(r) ==
    /\ pc[r] = "publish"
    /\ published' = [published EXCEPT ![r] = Append(@, Event(r))]
    /\ Raise(r, OtherException("publish"))
    /\ UNCHANGED <<products, orders, initStock, order_data, localVars, touched, applied>>

\* lines 78-82
ReturnCreated(r) ==
    /\ pc[r] = "return"
    /\ response' = [response EXCEPT ![r] = CreatedResponse(order_id[r])]
    /\ pc' = [pc EXCEPT ![r] = "done"]
    /\ UNCHANGED <<storeVars, initStock, order_data, localVars, txState, txOrders,
                   txStock, raised, published, touched, applied>>

\* ------------------------------------------------------------------ Next
Next ==
    \E r \in Requests :
        \/ Validate(r)
        \/ BeginTransaction(r)
        \/ SelectForUpdate(r)
        \/ CheckProduct(r)
        \/ GenerateOrder(r)
        \/ GenerateFails(r)
        \/ InsertOrder(r)
        \/ UpdateInventory(r)
        \/ CommitTransaction(r)
        \/ StoreFails(r)
        \/ PublishEvent(r)
        \/ PublishFails(r)
        \/ ReturnCreated(r)

Spec == Init /\ [][Next]_vars

\* The steps of request r that the code takes by itself, faults left out.
Progress(r) ==
    \/ Validate(r)
    \/ BeginTransaction(r)
    \/ SelectForUpdate(r)
    \/ CheckProduct(r)
    \/ GenerateOrder(r)
    \/ InsertOrder(r)
    \/ UpdateInventory(r)
    \/ CommitTransaction(r)
    \/ PublishEvent(r)
    \/ ReturnCreated(r)

\* Fair scheduling: a request whose next step stays possible takes a step.
\* Faults may happen but are never forced.
FairSpec == Spec /\ \A r \in Requests : WF_vars(Progress(r))

\* ============================================================== claims
Done(r) == pc[r] = "done"
AllDone == \A r \in Requests : Done(r)

\* The committed order rows of product p, and the committed order row of request r.
OrdersOf(p) == {o \in orders : o.product_id = p}
HasOrder(r) == order_id[r] # None /\ \E o \in orders : o.id = order_id[r]
Committed == {r \in Requests : HasOrder(r)}

RECURSIVE SumQuantity(_)
SumQuantity(rows) ==
    IF rows = {} THEN 0
    ELSE LET o == CHOOSE x \in rows : TRUE IN o.quantity + SumQuantity(rows \ {o})

Min(a, b) == IF a <= b THEN a ELSE b

\* A store or unexpected fault ended request r before its transaction committed.
FaultBeforeCommit(r) == raised[r].type \in {"SQLAlchemyError", "Exception"} /\ ~HasOrder(r)

\* C1 - no oversell: in every reachable state the committed stock of every
\* product is >= 0 and the quantities of its committed orders sum to at most
\* its initial stock.
NoOversell ==
    \A p \in ProductIds :
        /\ products[p].stock >= 0
        /\ SumQuantity(OrdersOf(p)) <= initStock[p]

\* Two orders have been committed against one product and used up its stock.
NoOversellWitness ==
    \E p \in ProductIds :
        /\ initStock[p] >= 2
        /\ Cardinality(OrdersOf(p)) = 2
        /\ products[p].stock = 0

\* C2 - atomicity: in every committed state the order row of a request is
\* present exactly when its transaction committed and the stock was decremented
\* by that order's quantity, the stock of a product is its initial stock minus
\* the quantities of its committed orders, and a request that raised inside
\* the transaction (zero rows updated, store failure, commit failure) has no
\* order row and decremented nothing.
AtomicOrderAndDecrement ==
    /\ \A p \in ProductIds :
          products[p].stock = initStock[p] - SumQuantity(OrdersOf(p))
    /\ \A r \in Requests :
          /\ HasOrder(r) <=> txState[r] = "committed"
          /\ HasOrder(r) => \E o \in orders : o.id = order_id[r] /\ applied[r] = o.quantity
          /\ ~HasOrder(r) => applied[r] = 0
          /\ txState[r] = "rolledback" => ~HasOrder(r) /\ applied[r] = 0
          /\ raised[r] # NoExc /\ raised[r].site \in {"conflict", "update", "commit"}
                => txState[r] = "rolledback"

\* A commit failed after the order row was inserted and the stock written, and
\* the row is not in the orders table, while another request's order is.
AtomicOrderAndDecrementWitness ==
    \E r, r2 \in Requests :
        /\ raised[r].type = "SQLAlchemyError" /\ raised[r].site = "commit"
        /\ ~HasOrder(r) /\ applied[r] = 0
        /\ r2 # r /\ HasOrder(r2) /\ applied[r2] >= 1

\* Every request is a well-formed order of quantity q for product p.
SameOrder(p, q) ==
    \A r \in Requests :
        order_data[r] = [productId |-> p, quantity |-> q, userId |-> 7]

\* No request met a store failure or an unexpected fault.
NoFault == \A r \in Requests : raised[r].type \notin {"SQLAlchemyError", "Exception"}

\* C3 as stated - serialization count: NumRequests requests for quantity Q of
\* one product with initial stock S: exactly floor(S/Q) succeed, the others fail
\* with insufficient stock or conflict, and the final stock is S - Q * successes.
\* (Read in the claim's favour: only runs in which nothing faults are counted.)
SerializationCountAsStated ==
    \A p \in ProductIds, q \in 1..MaxQty :
        AllDone /\ SameOrder(p, q) /\ NoFault =>
            LET succeeded == {r \in Requests : response[r].code = 201} IN
            /\ Cardinality(succeeded) = initStock[p] \div q
            /\ \A r \in Requests \ succeeded :
                  raised[r].site \in {"insufficient", "conflict"}
            /\ products[p].stock = initStock[p] - q * Cardinality(succeeded)

\* C3 - serialization count, amended: once NumRequests requests for quantity
\* Q >= 1 of one product with initial stock S have all returned, at most
\* min(NumRequests, floor(S/Q)) of them have committed an order, and exactly
\* that many if no request met a store or unexpected fault before its commit;
\* a request that committed nothing and met no fault was refused for
\* insufficient stock; the final stock is S - Q * (number of committed orders).
SerializationCount ==
    \A p \in ProductIds, q \in 1..MaxQty :
        AllDone /\ SameOrder(p, q) =>
            LET most == Min(NumRequests, initStock[p] \div q) IN
            /\ Cardinality(Committed) <= most
            /\ (\A r \in Requests : ~FaultBeforeCommit(r)) => Cardinality(Committed) = most
            /\ \A r \in Requests \ Committed :
                  FaultBeforeCommit(r) \/ raised[r].site = "insufficient"
            /\ \A r \in Requests : response[r].code = 201 => r \in Committed
            /\ products[p].stock = initStock[p] - q * Cardinality(Committed)

\* Stock 3, every request asks for 2: one order is committed, the others are
\* refused for insufficient stock, and the stock left is 1.
SerializationCountWitness ==
    /\ AllDone /\ SameOrder(1, 2) /\ initStock[1] = 3
    /\ Cardinality(Committed) = 1
    /\ \A r \in Requests \ Committed : raised[r].site = "insufficient"
    /\ products[1].stock = 1

\* The publish_event call of request r raised.
PublishFailed(r) == raised[r] # NoExc /\ raised[r].site = "publish"

\* C4 - a publish failure after the commit neither rolls the order back nor
\* changes the outcome: the request still returns the created response with
\* the order id.
PublishFailureKeepsOutcome ==
    \A r \in Requests :
        Done(r) /\ PublishFailed(r) =>
            /\ HasOrder(r)
            /\ response[r] = CreatedResponse(order_id[r])

HoldsLock(r) == \E p \in ProductIds : r \in lock[p]

\* C5 - event ordering: publish_event is called for an order at most once,
\* only when the transaction of that order has committed and the request holds
\* no lock, with the order's id, product and quantity; exactly once by the time
\* a request with a committed order is past the publish step; never for a
\* request whose transaction was rolled back.
EventOncePerCommittedOrder ==
    \A r \in Requests :
        /\ Len(published[r]) <= 1
        /\ published[r] # <<>> =>
              /\ txState[r] = "committed" /\ ~HoldsLock(r)
              /\ \E o \in orders :
                    /\ o.id = published[r][1].order_id
                    /\ o.product_id = published[r][1].product_id
                    /\ o.quantity = published[r][1].quantity
        /\ txState[r] \in {"none", "open", "rolledback"} => published[r] = <<>>
        /\ HasOrder(r) /\ pc[r] \in {"return", "done"} => Len(published[r]) = 1

\* One request has committed and published its one event; another was rolled
\* back and published none.
EventOncePerCommittedOrderWitness ==
    \E r, r2 \in Requests :
        /\ Done(r) /\ HasOrder(r) /\ Len(published[r]) = 1
        /\ txState[r2] = "rolledback" /\ order_id[r2] # None /\ published[r2] = <<>>

\* C6 - default quantity: a request with productId and userId and no quantity
\* is not rejected by validation and is processed with quantity 1.
DefaultQuantityApplied ==
    \A r \in Requests :
        Done(r) /\ DOMAIN order_data[r] = {"productId", "userId"} =>
            /\ ~(raised[r] # NoExc /\ raised[r].site = "validate")
            /\ quantity[r] = 1

\* C7 - positive quantity: a request whose quantity is zero or negative ends
\* with the validation outcome (a request ended by a store or unexpected fault
\* is left aside); every committed order has quantity >= 1 and no product's
\* stock exceeds its initial stock.
PositiveQuantityOnly ==
    /\ \A r \in Requests :
          Done(r) /\ required_fields \subseteq DOMAIN order_data[r]
                  /\ order_data[r]["quantity"] <= 0
                  /\ raised[r].type \notin {"SQLAlchemyError", "Exception"}
             => raised[r] # NoExc /\ raised[r].site = "validate" /\ response[r].code = 400
    /\ \A o \in orders : o.quantity >= 1
    /\ \A p \in ProductIds : products[p].stock <= initStock[p]

\* The payload is absent or empty, or lacks one of the three required fields.
Malformed(d) == \E f \in {"productId", "quantity", "userId"} : f \notin DOMAIN d

\* C8 - validation precedes the store: a request whose payload is empty or
\* lacks a required field never begins a transaction, takes a lock, reads or
\* writes a row or publishes an event, and ends with the validation outcome (400).
ValidationPrecedesStore ==
    \A r \in Requests :
        Malformed(order_data[r]) =>
            /\ ~touched[r] /\ txState[r] = "none" /\ ~HoldsLock(r)
            /\ product[r] = NoRow /\ txOrders[r] = {} /\ txStock[r] = NoWrites
            /\ ~HasOrder(r) /\ applied[r] = 0 /\ published[r] = <<>>
            /\ Done(r) => /\ raised[r].type = "BadRequest" /\ raised[r].site = "validate"
                          /\ response[r].code = 400

\* A request without userId has been rejected while another request has used
\* the store.
ValidationPrecedesStoreWitness ==
    \E r, r2 \in Requests :
        /\ Done(r) /\ DOMAIN order_data[r] = {"productId", "quantity"}
        /\ response[r].code = 400
        /\ touched[r2]

\* Request r has run the checks of lines 33-38 on the row it read.
PastCheck(r) ==
    \/ pc[r] \in {"generate", "insert", "update", "commit", "publish", "return"}
    \/ Done(r) /\ ~(raised[r] # NoExc /\ raised[r].site \in {"validate", "begin", "select"})

Rejected(r) == raised[r] # NoExc /\ raised[r].site \in {"not_found", "insufficient"}

\* The outcome of a request for a product without a row, or for more than the
\* stock it read under the lock, and what such a request leaves behind.
RejectionOutcome ==
    \A r \in Requests :
        /\ PastCheck(r) /\ product_id[r] \notin ProductIds =>
              /\ raised[r] = BadRequest("not_found",
                                 Msg("Product not found", <<product_id[r]>>))
              /\ response[r].code = 400 /\ response[r].body.error = raised[r].msg
        /\ PastCheck(r) /\ product_id[r] \in ProductIds
                        /\ quantity[r] > product[r].stock =>
              /\ raised[r] = BadRequest("insufficient",
                                 Msg("Insufficient stock",
                                     <<product_id[r], product[r].stock, quantity[r]>>))
              /\ response[r].code = 400 /\ response[r].body.error = raised[r].msg
        /\ Rejected(r) =>
              /\ order_id[r] = None /\ ~HasOrder(r) /\ applied[r] = 0
              /\ txOrders[r] = {} /\ txStock[r] = NoWrites
              /\ published[r] = <<>> /\ ~HoldsLock(r)

\* The step that rejects a request changes neither table.
RejectionStep ==
    \A r \in Requests :
        ~Rejected(r) /\ Rejected(r)' => orders' = orders /\ products' = products

\* C9 - rejection without mutation: a request for a product id without a row,
\* or for a quantity greater than the stock read under the lock, ends with a
\* 400 outcome (not found; insufficient stock with the available and the
\* requested quantity) and leaves the store unchanged: it inserts no order row,
\* changes no product's stock and publishes no event.
RejectionWithoutMutation == []RejectionOutcome /\ [][RejectionStep]_vars

\* A request was refused for insufficient stock because another request's
\* committed order had used the stock up; a third party's order row is intact.
RejectionWithoutMutationWitness ==
    \E r, r2 \in Requests :
        /\ raised[r] # NoExc /\ raised[r].site = "insufficient"
        /\ product[r].stock < initStock[product_id[r]]
        /\ quantity[r] <= initStock[product_id[r]]
        /\ HasOrder(r2) /\ product_id[r2] = product_id[r]

StoreMessage == Msg("Database error occurred during order processing", <<>>)
GenericMessage == Msg("Order processing failed", <<>>)

\* C10 - outcome classification: a request that has not returned has no
\* response; one that returned has exactly the response of its class:
\* no exception -> 201 created; validation, not found, insufficient stock and
\* zero rows updated -> 400 with the message raised; a store failure (commit
\* included) -> 500 with the fixed store message; any other fault -> 500 with
\* the fixed generic message.
OutcomeClassification ==
    /\ \A r \in Requests :
          /\ ~Done(r) => response[r] = NoResponse
          /\ Done(r) /\ raised[r] = NoExc => response[r] = CreatedResponse(order_id[r])
          /\ Done(r) /\ raised[r] # NoExc =>
                /\ raised[r].site \in {"validate", "not_found", "insufficient", "conflict"}
                      => response[r] = [code |-> 400, body |-> [error |-> raised[r].msg]]
                /\ raised[r].site \in StorePoints
                      => response[r] = [code |-> 500, body |-> [error |-> StoreMessage]]
                /\ raised[r].site \in {"generate", "publish"}
                      => response[r] = [code |-> 500, body |-> [error |-> GenericMessage]]
                /\ raised[r].site \in {"validate", "not_found", "insufficient", "conflict",
                                       "generate", "publish"} \cup StorePoints
    /\ HandleException(BadRequest("conflict",
           Msg("Inventory update failed - stock may have changed", <<>>))).code = 400

\* One request ended with the store's 500 on a failed commit, another with 201.
OutcomeClassificationWitness ==
    \E r, r2 \in Requests :
        /\ Done(r) /\ raised[r].type = "SQLAlchemyError" /\ raised[r].site = "commit"
        /\ response[r].code = 500
        /\ Done(r2) /\ response[r2].code = 201

\* Request r waits at the locking read of lines 28-31 for a row it cannot lock.
Blocked(r) ==
    /\ pc[r] = "select" /\ product_id[r] \in ProductIds
    /\ ~(lock[product_id[r]] \subseteq {r})

\* A step of request r touches the rows of its own product only.
OwnProductOnly ==
    \A r \in Requests :
        pc'[r] # pc[r] =>
            \A q \in ProductIds \ {product_id'[r]} :
                /\ products'[q] = products[q]
                /\ {o \in orders' : o.product_id = q} = OrdersOf(q)

\* The locking read of r is possible whenever no other request holds the lock
\* of r's own product, whatever locks of other products are held.
NotBlockedByOtherProduct ==
    \A r \in Requests :
        pc[r] = "select" /\ ~Blocked(r) => ENABLED SelectForUpdate(r)

\* C11 - independence of products: a request for product p never changes the
\* stock of, or inserts an order for, a product q # p, and its locking read is
\* never blocked by requests that hold only locks of products other than p.
ProductIndependence == []NotBlockedByOtherProduct /\ [][OwnProductOnly]_vars

\* One request holds the lock of product 2 and another is at, or past, its
\* locking read of product 1 while product 2 stays locked.
ProductIndependenceWitness ==
    \E r, r2 \in Requests :
        /\ product_id[r] = 1 /\ product_id[r2] = 2
        /\ r2 \in lock[2] /\ r \in lock[1]
        /\ txStock[r] # NoWrites

\* C12 - total price: every order row, committed or written by an open
\* transaction, has status 'created' and a total_price equal to the unit
\* price of its product times its quantity; for the order of request r that
\* unit price is the one r read under the row lock.
TotalPriceIsPriceTimesQuantity ==
    /\ \A o \in orders :
          /\ o.status = "created"
          /\ o.total_price = products[o.product_id].price * o.quantity
    /\ \A r \in Requests :
          \A o \in txOrders[r] \cup {x \in orders : x.id = order_id[r]} :
              /\ o.status = "created"
              /\ o.quantity = order_data[r]["quantity"]
              /\ o.total_price = product[r].price * order_data[r]["quantity"]

\* An order of quantity 2 for a product of unit price 10 is committed with
\* total price 20.
TotalPriceIsPriceTimesQuantityWitness ==
    \E o \in orders : o.quantity = 2 /\ o.total_price = 20 /\ o.product_id = 1

\* Request r has made its locking read of an existing row and its transaction
\* is still open.
ReadUnderLock(r) ==
    /\ txState[r] = "open" /\ product_id[r] \in ProductIds
    /\ pc[r] \in {"check", "generate", "insert", "update", "commit"}

\* C13 - mutual exclusion per product: at most one request holds the row lock
\* of a product; from the locking read of a request to its commit or abort the
\* request holds that lock, the committed row is still the row it read, and no
\* other open transaction has read or written that product's stock.
MutualExclusionPerProduct ==
    /\ \A p \in ProductIds : Cardinality(lock[p]) <= 1
    /\ \A r \in Requests :
          ReadUnderLock(r) =>
              LET p == product_id[r] IN
              /\ lock[p] = {r}
              /\ products[p] = product[r]
              /\ \A r2 \in Requests \ {r} :
                    txState[r2] = "open" /\ product_id[r2] = p =>
                        /\ pc[r2] \in {"select"}
                        /\ product[r2] = NoRow /\ txStock[r2] = NoWrites

\* A request has written the stock of a product under its lock while another
\* request for the same product waits at its locking read.
MutualExclusionPerProductWitness ==
    \E r, r2 \in Requests :
        /\ ReadUnderLock(r) /\ txStock[r] # NoWrites
        /\ r2 # r /\ Blocked(r2) /\ product_id[r2] = product_id[r]

\* C14 - lock release on every exit path: a request that has left the with
\* block (it has returned an outcome, or is at the publish or return step) has
\* no open transaction and holds no product lock, and a lock is held only by a
\* request whose transaction is open.
ReleasedOnEveryExit ==
    /\ \A r \in Requests :
          pc[r] \in {"publish", "return", "done"} =>
              /\ txState[r] \in {"none", "committed", "rolledback"}
              /\ ~HoldsLock(r)
              /\ txOrders[r] = {} /\ txStock[r] = NoWrites
    /\ \A r \in Requests : HoldsLock(r) => txState[r] = "open"

\* One request returned after a store failure at the update or the commit
\* rolled its transaction back, another after its commit; no lock is held.
ReleasedOnEveryExitWitness ==
    \E r, r2 \in Requests :
        /\ Done(r) /\ txState[r] = "rolledback" /\ raised[r].site \in {"update", "commit"}
        /\ Done(r2) /\ txState[r2] = "committed"
        /\ \A p \in ProductIds : lock[p] = {}

\* Some request can take a step of the code, or all have returned.
NoDeadlock == AllDone \/ \E r \in Requests : ENABLED Progress(r)

\* A request holds the lock of at most one product.
AtMostOneLock == \A r \in Requests : Cardinality({p \in ProductIds : r \in lock[p]}) <= 1

\* A response, once returned, is the response of the request for good.
OneOutcome ==
    \A r \in Requests : response[r] # NoResponse => response'[r] = response[r]

\* C15 - deadlock freedom and response: no request ever holds more than one
\* product lock, in no reachable state are the unfinished requests all stuck,
\* and under fair scheduling every request eventually returns, with one
\* outcome that never changes afterwards.
DeadlockFreeAndResponsive ==
    /\ [](NoDeadlock /\ AtMostOneLock)
    /\ \A r \in Requests : <>(Done(r) /\ response[r] # NoResponse)
    /\ [][OneOutcome]_vars

\* A request waits for the row lock another request holds with its write made.
DeadlockFreeAndResponsiveWitness ==
    \E r, r2 \in Requests :
        /\ Blocked(r) /\ txState[r] = "open"
        /\ r2 \in lock[product_id[r]] /\ pc[r2] = "commit"

\* C16 - bounded lock wait: a request that cannot acquire the row lock of its
\* product is not left to wait for as long as the holder keeps the lock: a step
\* of its own code (the abort with the conflict or timeout outcome once the
\* bound has passed) is possible.
BoundedLockWait == \A r \in Requests : Blocked(r) => ENABLED Progress(r)

\* C17 - the conflict outcome is unreachable: no request ends with 'Inventory
\* update failed'; the UPDATE of a request that passed the check of line 36
\* changes exactly one row; the check and the UPDATE use the one quantity taken
\* from the payload, and the stock written is the stock read minus it.
ConflictUnreachable ==
    \A r \in Requests :
        /\ raised[r] = NoExc \/ raised[r].site # "conflict"
        /\ pc[r] = "update" =>
              /\ RowsUpdated(r) = 1
              /\ quantity[r] = order_data[r]["quantity"]
              /\ product[r].stock >= quantity[r]
        /\ pc[r] = "commit" =>
              txStock[r] = [p \in {product_id[r]} |->
                               product[r].stock - order_data[r]["quantity"]]

\* A request is about to update a row whose stock, lowered by another
\* request's committed order, is exactly the quantity it asks for.
ConflictUnreachableWitness ==
    \E r, r2 \in Requests :
        /\ pc[r] = "update" /\ quantity[r] >= 1
        /\ product[r].stock = quantity[r]
        /\ product[r].stock < initStock[product_id[r]]
        /\ r2 # r /\ HasOrder(r2) /\ product_id[r2] = product_id[r]

\* C18 - the outcome agrees with the store: a request returns 201 only if its
\* order row and the matching stock decrement are committed, and returns an
\* error response only if no order row of it is committed.
OutcomeAgreesWithStore ==
    \A r \in Requests :
        Done(r) =>
            /\ response[r].code = 201 =>
                  \E o \in orders : o.id = order_id[r] /\ applied[r] = o.quantity
            /\ response[r].code \in {400, 500} => ~HasOrder(r)

====
